---- MODULE Spec2Model ----
(***************************************************************************)
(* Model of src/attendance_app.py: a two-table SQLite store (students,     *)
(* records) reached through one shared connection, the functions that      *)
(* keep the per-student totals in step with the daily records, the         *)
(* Streamlit handlers that call them, and the Show Stats computation.      *)
(*                                                                         *)
(* The connection is Python's sqlite3 in its default mode: an INSERT or    *)
(* UPDATE opens a transaction implicitly, conn.commit() makes every        *)
(* pending write durable, and nothing in the program ever rolls back.      *)
(* students/records are what queries on the connection see; dStudents/     *)
(* dRecords are what is committed to attendance.db.                        *)
(***************************************************************************)
EXTENDS Integers, Sequences, FiniteSets, TLC

\* ---------------------------------------------------------------- bounds
NumRolls == 2
MaxDate == 2
MaxClasses == 1
MaxRecords == 3
MaxApiRecords == 2
MaxTotal == 20

Rolls == 1..NumRolls
Dates == 1..MaxDate
Counts == 0..MaxClasses

\* ------------------------------------------------------ program constants
required == 75

VARIABLES students, records, dStudents, dRecords, clock, outcome, op,
          failedWrites, total_classes, attended_classes, stats

vars == <<students, records, dStudents, dRecords, clock, outcome, op,
          failedWrites, total_classes, attended_classes, stats>>

\* ------------------------------------------------------------- the store
\* The state the functions work on, as one value.
DB == [students |-> students, records |-> records,
       dStudents |-> dStudents, dRecords |-> dRecords,
       failedWrites |-> failedWrites, ret |-> outcome, id |-> 0, date |-> 0]

\* conn.commit(): every pending write of the connection becomes durable.
commit(S) == [S EXCEPT !.dStudents = S.students, !.dRecords = S.records,
                       !.failedWrites = {}]

\* fetchone() gives a row or None: a sequence of one row or the empty one.
get_student(S, roll_no) ==
    IF roll_no \in DOMAIN S.students THEN <<S.students[roll_no]>> ELSE <<>>

add_student(S, roll_no) ==
    IF roll_no \in DOMAIN S.students
    THEN [S EXCEPT !.ret = "IntegrityError"]
    ELSE commit([S EXCEPT
            !.students = (roll_no :> [total_classes |-> 0, attended_classes |-> 0])
                         @@ S.students,
            !.ret = "None"])

get_record_by_id(S, record_id) ==
    IF record_id \in 1..Len(S.records) THEN <<S.records[record_id]>> ELSE <<>>

\* The arithmetic of lines 77-78.
AdjustTotal_NoSubtract(total, old_total, new_total) == total + new_total

AdjustTotal(total, old_total, new_total) == total - old_total + new_total

AdjustAttended_NoSubtract(attended, old_attended, new_attended) ==
    attended + new_attended

AdjustAttended(attended, old_attended, new_attended) ==
    attended - old_attended + new_attended

update_record(S, record_id, roll_no, new_total, new_attended) ==
    LET record == get_record_by_id(S, record_id) IN
    IF record = <<>> THEN [S EXCEPT !.ret = "False"]
    ELSE
      LET old_total == record[1].total_classes
          old_attended == record[1].attended_classes
          recs == [S.records EXCEPT ![record_id].total_classes = new_total,
                                    ![record_id].attended_classes = new_attended]
          student == get_student(S, roll_no)
      IN IF student = <<>>
         THEN \* student[1] on None raises TypeError: the UPDATE stays pending
              [S EXCEPT !.records = recs, !.ret = "TypeError",
                        !.failedWrites = @ \cup {record_id},
                        !.id = record_id, !.date = record[1].date]
         ELSE
           LET total == AdjustTotal(student[1].total_classes, old_total, new_total)
               attended == AdjustAttended(student[1].attended_classes,
                                          old_attended, new_attended)
           IN commit([S EXCEPT
                  !.records = recs,
                  !.students[roll_no] = [total_classes |-> total,
                                         attended_classes |-> attended],
                  !.failedWrites = @ \ {record_id},
                  !.id = record_id, !.date = record[1].date,
                  !.ret = "True"])

\* SELECT ... WHERE roll_no=? AND date=?, fetchone(): the first match in
\* rowid order.  day is what date.today() returns at line 86.
get_today_record(S, roll_no, day) ==
    LET hits == {i \in 1..Len(S.records) :
                    S.records[i].roll_no = roll_no /\ S.records[i].date = day}
    IN IF hits = {} THEN <<>>
       ELSE <<S.records[CHOOSE i \in hits : \A j \in hits : i <= j]>>

\* today is date.today() at line 91, day the one at line 86.
add_or_update_today(S, roll_no, today_total, today_attended, today, day) ==
    LET existing == get_today_record(S, roll_no, day) IN
    IF existing # <<>>
    THEN update_record(S, existing[1].id, roll_no, today_total, today_attended)
    ELSE
      LET newid == Len(S.records) + 1
          recs == Append(S.records,
                    [id |-> newid, roll_no |-> roll_no, date |-> today,
                     total_classes |-> today_total,
                     attended_classes |-> today_attended])
          student == get_student(S, roll_no)
      IN IF student = <<>>
         THEN [S EXCEPT !.records = recs, !.ret = "TypeError",
                        !.failedWrites = @ \cup {newid},
                        !.id = newid, !.date = today]
         ELSE commit([S EXCEPT
                  !.records = recs,
                  !.students[roll_no] =
                      [total_classes |-> student[1].total_classes + today_total,
                       attended_classes |-> student[1].attended_classes + today_attended],
                  !.id = newid, !.date = today,
                  !.ret = "True"])

\* SELECT id, ... FROM records WHERE roll_no=?: the ids offered for editing.
get_records(S, roll_no) ==
    {i \in 1..Len(S.records) : S.records[i].roll_no = roll_no}

\* ------------------------------------------------------------ Show Stats
\* percent = (attended / total) * 100 as the exact rational <<num, den>>;
\* within the model's range the double computed by Python compares with 75
\* as the rational does.
Percent(total, attended) == <<100 * attended, total>>

MeetsThreshold_Strict(percent) == percent[1] > required * percent[2]

MeetsThreshold(percent) == percent[1] >= required * percent[2]

\* int(x / d) for an integer numerator: truncation towards zero.
IntDiv(x, d) == IF x >= 0 THEN x \div d ELSE -((-x) \div d)

Needed_NoPlusOne(total, attended) ==
    IntDiv((required * total) - (100 * attended), 100 - required)

Needed(total, attended) ==
    IntDiv((required * total) - (100 * attended), 100 - required) + 1

NotShown == [status |-> "none", percent |-> {}, needed |-> {}]

ShowStats(total, attended) ==
    IF total > 0
    THEN LET percent == Percent(total, attended) IN
         IF MeetsThreshold(percent)
         THEN [status |-> "safe", percent |-> {percent}, needed |-> {}]
         ELSE [status |-> "shortage", percent |-> {percent},
               needed |-> {Needed(total, attended)}]
    ELSE [status |-> "nodata", percent |-> {}, needed |-> {}]

\* ----------------------------------------------------------------- steps
NoOp == [kind |-> "none", roll |-> 0, date |-> 0, total |-> 0, attended |-> 0,
         id |-> 0, repeat |-> FALSE]

Accepted == {"success", "True"}

\* The call just made, with whether it repeats the accepted save before it.
Call(kind, roll, date, total, attended, id, ret) ==
    [kind |-> kind, roll |-> roll, date |-> date, total |-> total,
     attended |-> attended, id |-> id,
     repeat |-> /\ kind \in {"today", "edit"}
                /\ ret \in Accepted
                /\ op.kind \in {"today", "edit"}
                /\ outcome \in Accepted
                /\ op.roll = roll /\ op.date = date
                /\ op.total = total /\ op.attended = attended]

Store(S) ==
    /\ students' = S.students
    /\ records' = S.records
    /\ dStudents' = S.dStudents
    /\ dRecords' = S.dRecords
    /\ failedWrites' = S.failedWrites

\* Lines 149-176, run at the end of every script run for the roll logged in.
Render(S, roll_no) ==
    /\ total_classes' = S.students[roll_no].total_classes
    /\ attended_classes' = S.students[roll_no].attended_classes
    /\ stats' = ShowStats(S.students[roll_no].total_classes,
                          S.students[roll_no].attended_classes)

Init ==
    /\ students = <<>>
    /\ records = <<>>
    /\ dStudents = <<>>
    /\ dRecords = <<>>
    /\ clock = 1
    /\ outcome = "none"
    /\ op = NoOp
    /\ failedWrites = {}
    /\ total_classes = 0
    /\ attended_classes = 0
    /\ stats = NotShown

\* Midnight passes between two operations.
Tick ==
    /\ clock < MaxDate
    /\ clock' = clock + 1
    /\ UNCHANGED <<students, records, dStudents, dRecords, outcome, op,
                   failedWrites, total_classes, attended_classes, stats>>

\* Lines 118-127: a roll number is typed in; a new one gets its row.
Login(roll_no) ==
    LET S == IF get_student(DB, roll_no) = <<>> THEN add_student(DB, roll_no)
             ELSE DB
    IN /\ Store(S)
       /\ outcome' = "welcome"
       /\ op' = Call("login", roll_no, 0, 0, 0, 0, "welcome")
       /\ Render(S, roll_no)
       /\ UNCHANGED clock

ValidAttendance_Always(total, attended) == TRUE

ValidAttendance(total, attended) == attended <= total

\* Lines 141-146.  The button exists on a page rendered for roll_no, so the
\* student row is there.
SaveToday(roll_no, today_total, today_attended, day) ==
    /\ roll_no \in DOMAIN students
    /\ day \in {clock, clock + 1} \cap Dates
    /\ LET today == clock
           valid == ValidAttendance(today_total, today_attended)
           S == IF valid
                THEN add_or_update_today(DB, roll_no, today_total,
                                         today_attended, today, day)
                ELSE DB
           ret == IF valid THEN "success" ELSE "InvalidAttendance"
           date == IF valid THEN S.date ELSE today
       IN /\ Len(S.records) <= MaxRecords
          /\ Store(S)
          /\ outcome' = ret
          /\ op' = Call("today", roll_no, date, today_total, today_attended,
                        S.id, ret)
          /\ Render(S, roll_no)
          /\ clock' = IF valid THEN day ELSE clock

\* Lines 185-199: record_id is one of the ids listed for roll_no.
SaveChanges(roll_no, record_id, new_total, new_attended) ==
    /\ roll_no \in DOMAIN students
    /\ record_id \in get_records(DB, roll_no)
    /\ get_record_by_id(DB, record_id) # <<>>
    /\ LET valid == ValidAttendance(new_total, new_attended)
           S == IF valid
                THEN update_record(DB, record_id, roll_no, new_total, new_attended)
                ELSE DB
           ret == IF valid THEN "success" ELSE "InvalidAttendance"
       IN /\ Store(S)
          /\ outcome' = ret
          /\ op' = Call("edit", roll_no, records[record_id].date, new_total,
                        new_attended, record_id, ret)
          /\ Render(S, roll_no)
          /\ UNCHANGED clock

Next ==
    \/ Tick
    \/ \E r \in Rolls : Login(r)
    \/ \E r \in Rolls, t \in Counts, a \in Counts, d \in Dates :
          SaveToday(r, t, a, d)
    \/ \E r \in Rolls, i \in 1..(MaxRecords + 1), t \in Counts, a \in Counts :
          SaveChanges(r, i, t, a)

Spec == Init /\ [][Next]_vars

\* --------------------------------------------- the functions called directly
\* The same store driven through its functions, for any roll number, with
\* or without a student row.
CallAddStudent(roll_no) ==
    LET S == add_student(DB, roll_no)
    IN /\ Store(S)
       /\ outcome' = S.ret
       /\ op' = Call("add_student", roll_no, 0, 0, 0, 0, S.ret)
       /\ UNCHANGED <<clock, total_classes, attended_classes, stats>>

CallAddOrUpdateToday(roll_no, today_total, today_attended, day) ==
    /\ ValidAttendance(today_total, today_attended)
    /\ day \in {clock, clock + 1} \cap Dates
    /\ LET S == add_or_update_today(DB, roll_no, today_total, today_attended,
                                    clock, day)
       IN /\ Len(S.records) <= MaxApiRecords
          /\ Store(S)
          /\ outcome' = S.ret
          /\ op' = Call("today", roll_no, S.date, today_total, today_attended,
                        S.id, S.ret)
          /\ clock' = day
          /\ UNCHANGED <<total_classes, attended_classes, stats>>

\* As at both call sites (lines 95, 196), roll_no is the roll number of the
\* row when the row exists.
CallUpdateRecord(record_id, roll_no, new_total, new_attended) ==
    /\ ValidAttendance(new_total, new_attended)
    /\ record_id \in 1..Len(records) => records[record_id].roll_no = roll_no
    /\ LET S == update_record(DB, record_id, roll_no, new_total, new_attended)
       IN /\ Store(S)
          /\ outcome' = S.ret
          /\ op' = Call("edit", roll_no, S.date, new_total, new_attended,
                        S.id, S.ret)
          /\ UNCHANGED <<clock, total_classes, attended_classes, stats>>

NextAPI ==
    \/ Tick
    \/ \E r \in Rolls : CallAddStudent(r)
    \/ \E r \in Rolls, t \in Counts, a \in Counts, d \in Dates :
          CallAddOrUpdateToday(r, t, a, d)
    \/ \E i \in 1..(MaxApiRecords + 1), r \in Rolls, t \in Counts, a \in Counts :
          CallUpdateRecord(i, r, t, a)

SpecAPI == Init /\ [][NextAPI]_vars

\* ------------------------------------------- Show Stats as a pure function
InitEval ==
    /\ students = <<>>
    /\ records = <<>>
    /\ dStudents = <<>>
    /\ dRecords = <<>>
    /\ clock = 1
    /\ outcome = "none"
    /\ op = NoOp
    /\ failedWrites = {}
    /\ total_classes \in 0..MaxTotal
    /\ attended_classes \in 0..total_classes
    /\ stats = NotShown

Evaluate ==
    /\ stats = NotShown
    /\ stats' = ShowStats(total_classes, attended_classes)
    /\ UNCHANGED <<students, records, dStudents, dRecords, clock, outcome,
                   op, failedWrites, total_classes, attended_classes>>

NextEval == Evaluate

SpecEval == InitEval /\ [][NextEval]_vars

\* ================================================================ properties
RECURSIVE SumTotal(_, _)
SumTotal(recs, roll_no) ==
    IF recs = <<>> THEN 0
    ELSE (IF Head(recs).roll_no = roll_no THEN Head(recs).total_classes ELSE 0)
         + SumTotal(Tail(recs), roll_no)

RECURSIVE SumAttended(_, _)
SumAttended(recs, roll_no) ==
    IF recs = <<>> THEN 0
    ELSE (IF Head(recs).roll_no = roll_no THEN Head(recs).attended_classes ELSE 0)
         + SumAttended(Tail(recs), roll_no)

Saves == {"today", "edit"}

\* C1: after any sequence of completed saves for logged-in roll numbers,
\* every student's stored total_classes is the sum of total_classes over
\* that student's daily records and the stored attended_classes the sum of
\* attended_classes, in the connection's view and in the committed file.
C1_TotalsEqualSums ==
    /\ \A r \in DOMAIN students :
          /\ students[r].total_classes = SumTotal(records, r)
          /\ students[r].attended_classes = SumAttended(records, r)
    /\ \A r \in DOMAIN dStudents :
          /\ dStudents[r].total_classes = SumTotal(dRecords, r)
          /\ dStudents[r].attended_classes = SumAttended(dRecords, r)

C1_Witness ==
    /\ op.kind = "edit" /\ outcome = "success"
    /\ Cardinality(get_records(DB, op.roll)) >= 2
    /\ students[op.roll].total_classes >= 1
    /\ students[op.roll].total_classes > records[op.id].total_classes

DRow(recs, id) == IF id \in 1..Len(recs) THEN <<recs[id]>> ELSE <<>>

\* C2: a save that fails after its write to the daily record and before its
\* write to the student totals leaves the committed state as it was, and the
\* row it wrote is never committed by a later operation's commit.
C2_FailedSaveNeverCommitted ==
    [][/\ (outcome' = "TypeError" /\ op' # op)
             => (dRecords' = dRecords /\ dStudents' = dStudents)
       /\ \A id \in failedWrites \ {op'.id} :
             DRow(dRecords', id) = DRow(dRecords, id)]_vars

\* C3: a save today or an edit with attended > total is rejected with the
\* invalid-attendance error and writes nothing: records and totals, pending
\* and committed, are the same after the call as before it.
C3_RejectedWritesNothing ==
    [][(op'.kind \in Saves /\ op'.attended > op'.total)
          => /\ outcome' = "InvalidAttendance"
             /\ UNCHANGED <<students, records, dStudents, dRecords>>]_vars

C3_Witness ==
    /\ op.kind = "edit" /\ op.attended > op.total
    /\ outcome = "InvalidAttendance"
    /\ students[op.roll].total_classes >= 1

\* C4: in every reachable state there is at most one daily record per
\* (roll_no, date).
C4_OneRecordPerRollDate ==
    \A i, j \in 1..Len(records) :
        (records[i].roll_no = records[j].roll_no
         /\ records[i].date = records[j].date) => i = j

\* C5: an accepted save that repeats the (roll_no, date, total, attended) of
\* the accepted save just before it changes neither the totals nor the
\* daily records.
C5_RepeatIsNoOp ==
    [][op'.repeat => (students' = students /\ records' = records)]_vars

\* C6: a save called for a roll number with no student row returns the
\* not-found value instead of raising, and leaves the daily records as
\* they were.
C6_MissingStudentNotFound ==
    [][(op'.kind \in Saves /\ op' # op /\ op'.roll \notin DOMAIN students)
          => (outcome' = "False" /\ records' = records)]_vars

Reaches(total, attended, n) ==
    100 * (attended + n) >= required * (total + n)

\* C7: below the threshold, classesNeeded is the least n of additional
\* attended classes with 100*(attended+n) >= 75*(total+n): n reaches the
\* threshold and n-1 does not.
C7_NeededIsMinimal ==
    stats.status = "shortage" =>
        \A n \in stats.needed :
            /\ Reaches(total_classes, attended_classes, n)
            /\ ~Reaches(total_classes, attended_classes, n - 1)

\* C8: "no data" and no percentage exactly when total is 0; otherwise the
\* threshold is met exactly when 100*attended >= 75*total, and classesNeeded
\* is produced only when it is not met.
C8_EvaluateCases ==
    stats.status # "none" =>
        /\ (stats.status = "nodata") <=> (total_classes = 0)
        /\ (stats.percent = {}) <=> (total_classes = 0)
        /\ total_classes > 0 =>
              ((stats.status = "safe")
                  <=> (100 * attended_classes >= 75 * total_classes))
        /\ total_classes > 0 =>
              ((stats.status = "shortage")
                  <=> (100 * attended_classes < 75 * total_classes))
        /\ (stats.needed # {}) <=> (stats.status = "shortage")

C8_Witness ==
    /\ total_classes = 4 /\ attended_classes = 3
    /\ stats.status = "safe" /\ stats.needed = {}

\* C9: every student's totals and every daily record hold non-negative
\* integers with attended_classes <= total_classes.
C9_CountsInRange ==
    /\ \A r \in DOMAIN students :
          /\ students[r].total_classes \in Nat
          /\ students[r].attended_classes \in Nat
          /\ students[r].attended_classes <= students[r].total_classes
    /\ \A i \in 1..Len(records) :
          /\ records[i].total_classes \in Nat
          /\ records[i].attended_classes \in Nat
          /\ records[i].attended_classes <= records[i].total_classes

C9_Witness ==
    /\ op.kind = "edit" /\ outcome = "success"
    /\ records[op.id].date < clock
    /\ op.total = 0
    /\ students[op.roll].total_classes >= 1

\* C10: below the threshold, attending classesNeeded more classes in a row
\* gives an attendance strictly above the threshold.
C10_NeededExceeds ==
    stats.status = "shortage" =>
        \A n \in stats.needed :
            100 * (attended_classes + n) > required * (total_classes + n)

C10_Witness ==
    /\ total_classes = 20 /\ attended_classes = 10
    /\ stats.status = "shortage" /\ stats.needed = {21}

====
